---- MODULE Spec2Model ----
(***************************************************************************)
(* Model of fix_sqlx_syntax.py: a one-shot script that backs up one Rust   *)
(* source file, rewrites  sqlx::query(r#"..."#, param)  call sites into    *)
(* sqlx::query(r#"..."#) / .bind(param)  with two regular-expression       *)
(* substitutions, writes the file back and prints a count.                 *)
(*                                                                         *)
(* A file's text is a sequence of lexemes.  The lexemes are the literal    *)
(* pieces the two patterns are made of, plus enough other characters to    *)
(* build near misses:                                                      *)
(*    "Q"    sqlx::query(          "RH"   r#                               *)
(*    "DQ"   the double quote      "H"    #                                *)
(*    "CM"   ,                     "RP"   )          "LP"  (               *)
(*    "NL"   newline               "SP"   one space                        *)
(*    "IND"  eight spaces          "a" "b" one letter each (\w)            *)
(*    "BIND" .bind(                "F1"   .fetch_one   "FA" .fetch_all     *)
(*    "AMP"  &                     "DOT"  .                                *)
(* The multi-character lexemes are atomic: the letters of the model are    *)
(* only a and b, so no other lexemes can spell them.  original and layout *)
(* are history variables: the file's text when the script starts and the  *)
(* segments (call sites and other text) it was written from.              *)
(***************************************************************************)
EXTENDS Integers, Sequences, FiniteSets, TLC

VARIABLES pc, target, backup_exists, backup, content, fixed_content,
          original_count, fixed_count, out, log, original, layout

vars == <<pc, target, backup_exists, backup, content, fixed_content,
          original_count, fixed_count, out, log, original, layout>>

(* ---------------------------------------------------------------------- *)
(* Character classes of Python's re on the model's lexemes.               *)
(* ---------------------------------------------------------------------- *)
IsSpace(t) == t \in {"NL", "SP", "IND"}

IsWord(t) == t \in {"a", "b"}

At(s, i) == IF i >= 1 /\ i <= Len(s) THEN s[i] ELSE "EOF"

Slice(s, i, j) == IF j < i THEN <<>> ELSE SubSeq(s, i, j)

(* Greedy \s*, [^"]* and \w* from position i: the first position not in the class. *)
RECURSIVE SkipSpace(_, _)
SkipSpace(s, i) == IF i <= Len(s) /\ IsSpace(s[i]) THEN SkipSpace(s, i + 1) ELSE i

RECURSIVE SkipNotQuote(_, _)
SkipNotQuote(s, i) == IF i <= Len(s) /\ s[i] # "DQ" THEN SkipNotQuote(s, i + 1) ELSE i

RECURSIVE SkipWord(_, _)
SkipWord(s, i) == IF i <= Len(s) /\ IsWord(s[i]) THEN SkipWord(s, i + 1) ELSE i

(* ---------------------------------------------------------------------- *)
(* pattern = (sqlx::query\(\s*r#"[^"]*"#),\s*(\w+)\s*\)                    *)
(* Every quantifier is followed by a lexeme outside its class, so the     *)
(* greedy run is the only one that can succeed.                           *)
(* ---------------------------------------------------------------------- *)
NoMatch == [ok |-> FALSE, g1end |-> 0, pfrom |-> 0, pto |-> 0, end |-> 0]

Match1(s, i) ==
    IF At(s, i) # "Q" THEN NoMatch
    ELSE LET j1 == SkipSpace(s, i + 1) IN
      IF At(s, j1) # "RH" \/ At(s, j1 + 1) # "DQ" THEN NoMatch
      ELSE LET j2 == SkipNotQuote(s, j1 + 2) IN
        IF At(s, j2) # "DQ" \/ At(s, j2 + 1) # "H" \/ At(s, j2 + 2) # "CM" THEN NoMatch
        ELSE LET j3 == SkipSpace(s, j2 + 3)
                 j4 == SkipWord(s, j3)
                 j5 == SkipSpace(s, j4) IN
          IF j4 = j3 \/ At(s, j5) # "RP" THEN NoMatch
          ELSE [ok |-> TRUE, g1end |-> j2 + 1, pfrom |-> j3, pto |-> j4 - 1,
                end |-> j5 + 1]

(* replace_query: group 1, ")", newline, eight spaces, ".bind(", group 2, ")" *)
replace_query(s, i, m) ==
    Slice(s, i, m.g1end) \o <<"RP", "NL", "IND", "BIND">>
        \o Slice(s, m.pfrom, m.pto) \o <<"RP">>

(* Mutant: only the first match is replaced (re.sub with count=1). *)
RECURSIVE Sub1FromOnce(_, _)
Sub1FromOnce(s, i) ==
    IF i > Len(s) THEN <<>>
    ELSE LET m == Match1(s, i) IN
      IF m.ok THEN replace_query(s, i, m) \o Slice(s, m.end, Len(s))
      ELSE <<s[i]>> \o Sub1FromOnce(s, i + 1)

(* re.sub: scan left to right; a match is replaced and the scan resumes after it. *)
RECURSIVE Sub1From(_, _)
Sub1From(s, i) ==
    IF i > Len(s) THEN <<>>
    ELSE LET m == Match1(s, i) IN
      IF m.ok THEN replace_query(s, i, m) \o Sub1From(s, m.end)
      ELSE <<s[i]>> \o Sub1From(s, i + 1)

Sub1(s) == Sub1From(s, 1)

(* The number of replacements that scan makes (what re.subn would return). *)
RECURSIVE Subs1From(_, _)
Subs1From(s, i) ==
    IF i > Len(s) THEN 0
    ELSE LET m == Match1(s, i) IN
      IF m.ok THEN 1 + Subs1From(s, m.end) ELSE Subs1From(s, i + 1)

Subs1(s) == Subs1From(s, 1)

(* ---------------------------------------------------------------------- *)
(* pattern 2 = \)\s*\n\s*\)\s*\n\s*\.(fetch_(?:one|all))                   *)
(* \s*\n\s* is a run of white space that holds a newline to backtrack to.  *)
(* ---------------------------------------------------------------------- *)
HasNewline(s, i, j) == \E k \in i..j : s[k] = "NL"

(* Mutant: \)\s*\)\s*\n\s*\.(fetch_...), no line break asked between the two ")". *)
Match2SameLine(s, i) ==
    IF At(s, i) # "RP" THEN NoMatch
    ELSE LET j1 == SkipSpace(s, i + 1) IN
      IF At(s, j1) # "RP" THEN NoMatch
      ELSE LET j2 == SkipSpace(s, j1 + 1) IN
        IF ~HasNewline(s, j1 + 1, j2 - 1) \/ At(s, j2) \notin {"F1", "FA"} THEN NoMatch
        ELSE [ok |-> TRUE, g1end |-> j2, pfrom |-> j2, pto |-> j2, end |-> j2 + 1]

Match2(s, i) ==
    IF At(s, i) # "RP" THEN NoMatch
    ELSE LET j1 == SkipSpace(s, i + 1) IN
      IF ~HasNewline(s, i + 1, j1 - 1) \/ At(s, j1) # "RP" THEN NoMatch
      ELSE LET j2 == SkipSpace(s, j1 + 1) IN
        IF ~HasNewline(s, j1 + 1, j2 - 1) \/ At(s, j2) \notin {"F1", "FA"} THEN NoMatch
        ELSE [ok |-> TRUE, g1end |-> j2, pfrom |-> j2, pto |-> j2, end |-> j2 + 1]

(* r')\n        .\1' *)
replace_fetch(s, m) == <<"RP", "NL", "IND", s[m.pfrom]>>

RECURSIVE Sub2From(_, _)
Sub2From(s, i) ==
    IF i > Len(s) THEN <<>>
    ELSE LET m == Match2(s, i) IN
      IF m.ok THEN replace_fetch(s, m) \o Sub2From(s, m.end)
      ELSE <<s[i]>> \o Sub2From(s, i + 1)

Sub2(s) == Sub2From(s, 1)

(* str.count of a one-lexeme needle. *)
RECURSIVE CountFrom(_, _, _)
CountFrom(s, t, i) ==
    IF i > Len(s) THEN 0
    ELSE (IF s[i] = t THEN 1 ELSE 0) + CountFrom(s, t, i + 1)

Count(s, t) == CountFrom(s, t, 1)

(* ---------------------------------------------------------------------- *)
(* The script.  pc is the statement the process is at; "crashed" is the   *)
(* process ended by an uncaught exception.                                *)
(* ---------------------------------------------------------------------- *)
file_path == "swarm/src/agent.rs"

backup_path == "swarm/src/agent.rs.bak2"

Line(m, p, n) == [msg |-> m, path |-> p, n |-> n]

Prefixes(s) == {Slice(s, 1, k) : k \in 0..Len(s)}

(* Mutant: the copy goes somewhere else and the backup path is not written. *)
BackupElsewhere ==
    /\ pc = "main"
    /\ pc' = "backed_up"
    /\ log' = Append(log, "copy")
    /\ UNCHANGED <<target, backup_exists, backup, content, fixed_content,
                   original_count, fixed_count, out, original, layout>>

(* shutil.copy(file_path, backup_path) *)
Backup ==
    /\ pc = "main"
    /\ pc' = "backed_up"
    /\ backup_exists' = TRUE
    /\ backup' = target
    /\ log' = Append(log, "copy")
    /\ UNCHANGED <<target, content, fixed_content, original_count, fixed_count,
                   out, original, layout>>

(* shutil.copy raises: the source cannot be read, the copy cannot be written
   or its mode cannot be set; what it wrote of the copy before that stays on
   disk. *)
BackupFail ==
    /\ pc = "main"
    /\ pc' = "crashed"
    /\ \/ UNCHANGED <<backup_exists, backup>>
       \/ /\ backup_exists' = TRUE
          /\ backup' \in Prefixes(target)
    /\ log' = Append(log, "copy_failed")
    /\ UNCHANGED <<target, content, fixed_content, original_count, fixed_count,
                   out, original, layout>>

PrintBackup ==
    /\ pc = "backed_up"
    /\ pc' = "call"
    /\ out' = Append(out, Line("Created backup at", backup_path, 0))
    /\ log' = Append(log, "print_backup")
    /\ UNCHANGED <<target, backup_exists, backup, content, fixed_content,
                   original_count, fixed_count, original, layout>>

(* with open(file_path, 'r') as f: content = f.read() *)
ReadTarget ==
    /\ pc = "call"
    /\ pc' = "read"
    /\ content' = target
    /\ log' = Append(log, "read")
    /\ UNCHANGED <<target, backup_exists, backup, fixed_content, original_count,
                   fixed_count, out, original, layout>>

(* Mutant: the failed read is caught and the script goes on with no text. *)
ReadFailCaught ==
    /\ pc = "call"
    /\ pc' = "read"
    /\ content' = <<>>
    /\ log' = Append(log, "read_failed")
    /\ UNCHANGED <<target, backup_exists, backup, fixed_content, original_count,
                   fixed_count, out, original, layout>>

ReadFail ==
    /\ pc = "call"
    /\ pc' = "crashed"
    /\ log' = Append(log, "read_failed")
    /\ UNCHANGED <<target, backup_exists, backup, content, fixed_content,
                   original_count, fixed_count, out, original, layout>>

(* fixed_content = re.sub(pattern, replace_query, content, ...) *)
Step1 ==
    /\ pc = "read"
    /\ pc' = "sub1"
    /\ fixed_content' = Sub1(content)
    /\ log' = Append(log, "step1")
    /\ UNCHANGED <<target, backup_exists, backup, content, original_count,
                   fixed_count, out, original, layout>>

(* Mutant: the second re.sub is given content, not fixed_content. *)
Step2OnContent ==
    /\ pc = "sub1"
    /\ pc' = "sub2"
    /\ fixed_content' = Sub2(content)
    /\ log' = Append(log, "step2")
    /\ UNCHANGED <<target, backup_exists, backup, content, original_count,
                   fixed_count, out, original, layout>>

(* fixed_content = re.sub(pattern 2, r')\n        .\1', fixed_content) *)
Step2 ==
    /\ pc = "sub1"
    /\ pc' = "sub2"
    /\ fixed_content' = Sub2(fixed_content)
    /\ log' = Append(log, "step2")
    /\ UNCHANGED <<target, backup_exists, backup, content, original_count,
                   fixed_count, out, original, layout>>

(* open(file_path, 'w') truncates the file. *)
OpenWrite ==
    /\ pc = "sub2"
    /\ pc' = "open_w"
    /\ target' = <<>>
    /\ log' = Append(log, "open_w")
    /\ UNCHANGED <<backup_exists, backup, content, fixed_content, original_count,
                   fixed_count, out, original, layout>>

OpenWriteFail ==
    /\ pc = "sub2"
    /\ pc' = "crashed"
    /\ log' = Append(log, "open_w_failed")
    /\ UNCHANGED <<target, backup_exists, backup, content, fixed_content,
                   original_count, fixed_count, out, original, layout>>

(* f.write(fixed_content) and the close at the end of the with block *)
WriteClose ==
    /\ pc = "open_w"
    /\ pc' = "written"
    /\ target' = fixed_content
    /\ log' = Append(log, "write")
    /\ UNCHANGED <<backup_exists, backup, content, fixed_content, original_count,
                   fixed_count, out, original, layout>>

(* The write or the flush on close raises: some prefix reached the disk. *)
WriteFail ==
    /\ pc = "open_w"
    /\ pc' = "crashed"
    /\ target' \in Prefixes(fixed_content)
    /\ log' = Append(log, "write_failed")
    /\ UNCHANGED <<backup_exists, backup, content, fixed_content, original_count,
                   fixed_count, out, original, layout>>

(* Mutant: the completion line is printed inside the with block, before the
   write. *)
PrintFixedBeforeWrite ==
    /\ pc = "open_w"
    /\ pc' = "printed"
    /\ out' = Append(out, Line("Fixed SQLx syntax in", file_path, 0))
    /\ log' = Append(log, "print_fixed")
    /\ UNCHANGED <<target, backup_exists, backup, content, fixed_content,
                   original_count, fixed_count, original, layout>>

PrintFixed ==
    /\ pc = "written"
    /\ pc' = "printed"
    /\ out' = Append(out, Line("Fixed SQLx syntax in", file_path, 0))
    /\ log' = Append(log, "print_fixed")
    /\ UNCHANGED <<target, backup_exists, backup, content, fixed_content,
                   original_count, fixed_count, original, layout>>

(* Mutant: the line prints original_count. *)
PrintCountOriginal ==
    /\ pc = "printed"
    /\ pc' = "returned"
    /\ original_count' = Count(content, "Q")
    /\ fixed_count' = Count(content, "Q")
    /\ out' = Append(out, Line("Fixed queries", "", Count(content, "Q")))
    /\ log' = Append(log, "print_count")
    /\ UNCHANGED <<target, backup_exists, backup, content, fixed_content, original, layout>>

(* original_count = content.count('sqlx::query(')
   fixed_count = fixed_content.count('.bind(')
   print(f"   Fixed {fixed_count} queries") *)
PrintCount ==
    /\ pc = "printed"
    /\ pc' = "returned"
    /\ original_count' = Count(content, "Q")
    /\ fixed_count' = Count(fixed_content, "BIND")
    /\ out' = Append(out, Line("Fixed queries", "", Count(fixed_content, "BIND")))
    /\ log' = Append(log, "print_count")
    /\ UNCHANGED <<target, backup_exists, backup, content, fixed_content, original, layout>>

(* One of the four print calls raises (stdout closed, or a locale that cannot
   encode the emoji of lines 40 and 54). *)
PrintFail ==
    /\ pc \in {"backed_up", "written", "printed", "returned"}
    /\ pc' = "crashed"
    /\ log' = Append(log, "print_failed")
    /\ UNCHANGED <<target, backup_exists, backup, content, fixed_content,
                   original_count, fixed_count, out, original, layout>>

PrintHint ==
    /\ pc = "returned"
    /\ pc' = "done"
    /\ out' = Append(out, Line("You can now run: cargo build --release", "", 0))
    /\ log' = Append(log, "print_hint")
    /\ UNCHANGED <<target, backup_exists, backup, content, fixed_content,
                   original_count, fixed_count, original, layout>>

(* ---------------------------------------------------------------------- *)
(* The files the script is run on.                                        *)
(* ---------------------------------------------------------------------- *)
MaxMainFrags == 3

MaxFrags == 4

MaxSegs == 2

(* Pieces of Rust text around the two patterns:
     sqlx::query(r#"     sqlx::query( newline indent r#"     "#, a)     #,a)
     ) newline     newline     newline ) newline     )
     .fetch_one     eight spaces .fetch_all     .bind(b)                  *)
Frags ==
    { <<"Q", "RH", "DQ">>,
      <<"Q", "NL", "IND", "RH", "DQ">>,
      <<"DQ", "H", "CM", "SP", "a", "RP">>,
      <<"H", "CM", "a", "RP">>,
      <<"RP", "NL">>,
      <<"NL">>,
      <<"NL", "RP", "NL">>,
      <<"RP">>,
      <<"F1">>,
      <<"IND", "FA">>,
      <<"BIND", "b", "RP">> }

RECURSIVE Texts(_)
Texts(k) ==
    IF k = 0 THEN {<<>>}
    ELSE LET shorter == Texts(k - 1)
         IN  shorter \cup {s \o f : s \in shorter, f \in Frags}

(* A call site as it stands in the file: sqlx::query(r#"<body>"#,<arg>) *)
CallSite(body, arg) ==
    <<"Q", "RH", "DQ">> \o body \o <<"DQ", "H", "CM">> \o arg \o <<"RP">>

TextSeg(text) == [site |-> FALSE, body |-> <<>>, arg |-> <<>>, text |-> text]

SiteSeg(body, arg) ==
    [site |-> TRUE, body |-> body, arg |-> arg, text |-> CallSite(body, arg)]

RECURSIVE Flatten(_)
Flatten(segs) ==
    IF segs = <<>> THEN <<>> ELSE Head(segs).text \o Flatten(Tail(segs))

(* Raw string bodies: empty, a word, a word with a line break, one holding a
   bare double quote, one holding two closing lines and a .fetch_one. *)
Bodies ==
    { <<>>, <<"a">>, <<"a", "NL", "b">>, <<"a", "DQ", "b">>,
      <<"LP", "RP", "NL", "RP", "NL", "F1">> }

(* One bare identifier, with the white space the pattern allows. *)
IdentArgs == { <<"SP", "a">>, <<"SP", "b">>, <<"NL", "IND", "a", "b", "NL">> }

(* Two parameters, a field access, a reference, a call, a call ending a line. *)
OtherArgs ==
    { <<"SP", "a", "CM", "SP", "b">>, <<"SP", "a", "DOT", "b">>, <<"SP", "AMP", "a">>,
      <<"SP", "a", "LP", "b", "RP">>, <<"SP", "a", "LP", "b", "RP", "NL">> }

Between ==
    { <<>>, <<"NL">>, <<"NL", "F1", "LP", "a", "RP">>, <<"NL", "RP", "NL", "F1">> }

Segments ==
    {SiteSeg(b, g) : b \in Bodies, g \in IdentArgs \cup OtherArgs}
        \cup {TextSeg(x) : x \in Between \ {<<>>}}

RECURSIVE Layouts(_)
Layouts(k) ==
    IF k = 0 THEN {<<>>}
    ELSE LET shorter == Layouts(k - 1)
         IN  shorter \cup {Append(l, g) : l \in shorter, g \in Segments}

(* ---------------------------------------------------------------------- *)
(* Specifications.                                                        *)
(* ---------------------------------------------------------------------- *)
(* The process at the start of __main__; a backup of an earlier run may be
   there already. *)
Init ==
    /\ pc = "main"
    /\ target \in Texts(MaxMainFrags)
    /\ backup_exists \in BOOLEAN
    /\ backup = IF backup_exists THEN <<"NL">> ELSE <<>>
    /\ content = <<>>
    /\ fixed_content = <<>>
    /\ original_count = 0
    /\ fixed_count = 0
    /\ out = <<>>
    /\ log = <<>>
    /\ original = target
    /\ layout = <<TextSeg(target)>>

Next ==
    \/ Backup
    \/ BackupFail
    \/ PrintBackup
    \/ ReadTarget
    \/ ReadFail
    \/ Step1
    \/ Step2
    \/ OpenWrite
    \/ OpenWriteFail
    \/ WriteClose
    \/ WriteFail
    \/ PrintFixed
    \/ PrintCount
    \/ PrintHint
    \/ PrintFail

Spec == Init /\ [][Next]_vars

(* The process right after content = f.read() returned the text of `segs`. *)
AfterRead(segs) ==
    /\ pc = "read"
    /\ layout = segs
    /\ original = Flatten(segs)
    /\ target = original
    /\ backup_exists = TRUE
    /\ backup = original
    /\ content = original
    /\ fixed_content = <<>>
    /\ original_count = 0
    /\ fixed_count = 0
    /\ out = <<Line("Created backup at", backup_path, 0)>>
    /\ log = <<"copy", "print_backup", "read">>

InitRewrite == \E x \in Texts(MaxFrags) : AfterRead(<<TextSeg(x)>>)

InitSites == \E l \in Layouts(MaxSegs) : AfterRead(l)

NextRewrite ==
    \/ Step1
    \/ Step2
    \/ OpenWrite
    \/ WriteClose
    \/ PrintFixed
    \/ PrintCount

SpecRewrite == InitRewrite /\ [][NextRewrite]_vars

SpecSites == InitSites /\ [][NextRewrite]_vars

(* The two substitutions alone. *)
NextSub ==
    \/ Step1
    \/ Step2

SpecSub == InitRewrite /\ [][NextSub]_vars

(* ---------------------------------------------------------------------- *)
(* Properties of the run of __main__ (checked under Spec).                *)
(* ---------------------------------------------------------------------- *)
InLog(e) == \E i \in DOMAIN log : log[i] = e

Printed(m) == \E i \in DOMAIN out : out[i].msg = m

Failures ==
    {"copy_failed", "read_failed", "open_w_failed", "write_failed", "print_failed"}

TargetWrites == {"open_w", "open_w_failed", "write", "write_failed"}

Times(e) == Cardinality({i \in DOMAIN log : log[i] = e})

(* C1: the backup copy is complete before the target is opened for writing,
   and from then on, in every state (also after a failed or partial write),
   the backup file exists and holds the text the target had when the script
   started; nothing the script does later changes it. *)
C1_BackupBeforeMutation ==
    /\ \A i \in DOMAIN log :
          log[i] \in TargetWrites => \E j \in 1..(i - 1) : log[j] = "copy"
    /\ target # original => InLog("copy")
    /\ InLog("copy") => backup_exists /\ backup = original

C1_Witness ==
    /\ pc = "crashed"
    /\ InLog("write_failed")
    /\ target # original
    /\ original # <<>>
    /\ backup = original

(* C8: an I/O failure ends the process and is the last thing it does.  If
   the copy fails the target is neither read nor written; if the read fails
   the target is not written and neither the completion line nor the count
   line is printed; after a failure that follows the copy, the backup exists
   with the original text. *)
C8_FailurePropagates ==
    /\ \A i \in DOMAIN log : log[i] \in Failures => i = Len(log) /\ pc = "crashed"
    /\ pc = "crashed" => log # <<>> /\ log[Len(log)] \in Failures
    /\ InLog("copy_failed") =>
          /\ ~InLog("read") /\ \A i \in DOMAIN log : log[i] \notin TargetWrites
          /\ target = original /\ content = <<>> /\ out = <<>>
    /\ InLog("read_failed") =>
          /\ \A i \in DOMAIN log : log[i] \notin TargetWrites
          /\ target = original
          /\ ~Printed("Fixed SQLx syntax in") /\ ~Printed("Fixed queries")
    /\ pc = "crashed" /\ InLog("copy") => backup_exists /\ backup = original

C8_Witness ==
    /\ pc = "crashed"
    /\ InLog("read_failed")
    /\ original # <<>>
    /\ backup = original

SuccessOrder ==
    <<"copy", "print_backup", "read", "step1", "step2", "open_w", "write",
      "print_fixed", "print_count", "print_hint">>

IsPrefix(s, u) == Len(s) <= Len(u) /\ \A i \in DOMAIN s : s[i] = u[i]

(* C10: on a run that ends normally the events are, in this order: backup
   copy, backup line, read, Step 1, Step 2, open for writing, write, completion
   line naming the target path, count line, build hint; at any moment the
   events so far are a prefix of that list (followed by at most one failure);
   the completion and count lines are printed only once the target holds the
   transformed text, and the target is written exactly once. *)
C10_EventOrder ==
    /\ pc # "crashed" => IsPrefix(log, SuccessOrder)
    /\ pc = "crashed" => IsPrefix(Slice(log, 1, Len(log) - 1), SuccessOrder)
    /\ pc = "done" =>
          /\ log = SuccessOrder
          /\ Len(out) = 4
          /\ out[1] = Line("Created backup at", backup_path, 0)
          /\ out[2] = Line("Fixed SQLx syntax in", file_path, 0)
          /\ out[3] = Line("Fixed queries", "", Count(target, "BIND"))
    /\ Printed("Fixed SQLx syntax in") \/ Printed("Fixed queries") =>
          /\ Times("write") = 1
          /\ target = Sub2(Sub1(original))
    /\ Times("write") <= 1 /\ Times("open_w") <= 1

C10_Witness ==
    /\ pc = "done"
    /\ target # original
    /\ fixed_count > 0

(* ---------------------------------------------------------------------- *)
(* The two shapes, stated without the scan: where they are in a text.     *)
(* ---------------------------------------------------------------------- *)
AllSpace(s, lo, hi) == \A k \in lo..hi : IsSpace(s[k])

(* lo..hi is white space, one or more letters, white space. *)
IsIdentArg(s, lo, hi) ==
    \E w1 \in lo..hi : \E w2 \in w1..hi :
        /\ AllSpace(s, lo, w1 - 1)
        /\ \A k \in w1..w2 : IsWord(s[k])
        /\ AllSpace(s, w2 + 1, hi)

(* s[i..e] is sqlx::query( r#"<no quote>"#, <identifier> ) *)
Occurs1To(s, i, e) ==
    /\ At(s, i) = "Q"
    /\ At(s, e) = "RP"
    /\ \E r \in (i + 1)..(e - 1) :
          /\ s[r] = "RH"
          /\ s[r + 1] = "DQ"
          /\ AllSpace(s, i + 1, r - 1)
          /\ \E c \in (r + 2)..(e - 3) :
                /\ s[c] = "DQ"
                /\ \A k \in (r + 2)..(c - 1) : s[k] # "DQ"
                /\ s[c + 1] = "H"
                /\ s[c + 2] = "CM"
                /\ IsIdentArg(s, c + 3, e - 1)

Occurs1(s, i) == \E e \in (i + 1)..Len(s) : Occurs1To(s, i, e)

Occurrences1(s) == {i \in DOMAIN s : Occurs1(s, i)}

(* Some occurrence starts inside another one. *)
Overlap1(s) ==
    \E i \in DOMAIN s : \E e \in (i + 1)..Len(s) :
        /\ Occurs1To(s, i, e)
        /\ \E j \in (i + 1)..e : Occurs1(s, j)

(* s[i..e]: a ")" line, a second ")" line, then .fetch_one or .fetch_all *)
Occurs2To(s, i, e) ==
    /\ At(s, i) = "RP"
    /\ At(s, e) \in {"F1", "FA"}
    /\ \E j \in (i + 1)..(e - 1) :
          /\ s[j] = "RP"
          /\ AllSpace(s, i + 1, j - 1) /\ HasNewline(s, i + 1, j - 1)
          /\ AllSpace(s, j + 1, e - 1) /\ HasNewline(s, j + 1, e - 1)

Occurs2(s, i) == \E e \in (i + 1)..Len(s) : Occurs2To(s, i, e)

Occurrences2(s) == {i \in DOMAIN s : Occurs2(s, i)}

(* Position p lies after the first ")" and before the terminal call of some
   occurrence of the second shape. *)
Inside2(s, p) ==
    /\ IsSpace(s[p]) \/ s[p] = "RP"
    /\ \E i \in 1..(p - 1) : \E e \in (p + 1)..Len(s) : Occurs2To(s, i, e)

(* Every occurrence of the second shape collapsed, all at once. *)
RECURSIVE CollapseFrom(_, _)
CollapseFrom(s, p) ==
    IF p > Len(s) THEN <<>>
    ELSE (IF Occurs2(s, p) THEN <<"RP", "NL", "IND">>
          ELSE IF Inside2(s, p) THEN <<>>
          ELSE <<s[p]>>) \o CollapseFrom(s, p + 1)

Collapse(s) == CollapseFrom(s, 1)

(* ---------------------------------------------------------------------- *)
(* Properties of the rewrite (SpecRewrite, SpecSub).                      *)
(* ---------------------------------------------------------------------- *)
(* C2, as claimed: a text with no occurrence of the Step-1 shape comes back
   unchanged, and the count printed is the number of .bind( it already had. *)
C2_NoCallSiteUnchanged ==
    pc = "returned" /\ Occurrences1(content) = {} =>
        /\ fixed_content = content
        /\ target = content
        /\ fixed_count = Count(content, "BIND")

(* C2, amended: a text with no occurrence of the Step-1 shape and no
   occurrence of the Step-2 shape comes back unchanged; with no occurrence of
   the Step-1 shape the count printed is the number of .bind( it already had,
   whether or not Step 2 collapsed something. *)
C2_NoShapeUnchanged ==
    pc = "returned" /\ Occurrences1(content) = {} =>
        /\ Occurrences2(content) = {} => fixed_content = content /\ target = content
        /\ fixed_count = Count(content, "BIND")

C2_Witness ==
    /\ pc = "returned"
    /\ Occurrences1(content) = {}
    /\ Occurrences2(content) = {}
    /\ Count(content, "Q") > 0
    /\ Count(content, "F1") > 0
    /\ fixed_count = 2
    /\ target = content

(* C5, as claimed: rewriting the rewritten text again changes nothing. *)
C5_Idempotent ==
    pc = "sub2" => Sub2(Sub1(fixed_content)) = fixed_content

(* C6: Step 2 works on the text Step 1 produced: the final text is that text
   with every ")" line, ")" line, terminal call collapsed to one ")", a
   newline, eight spaces and the same terminal call; one ")" goes per
   collapse and nothing else changes. *)
C6_CleanupCollapses ==
    pc = "sub2" =>
        LET s1 == Sub1(content) IN
        /\ fixed_content = Collapse(s1)
        /\ Count(fixed_content, "RP") = Count(s1, "RP") - Cardinality(Occurrences2(s1))
        /\ Count(fixed_content, "F1") = Count(s1, "F1")
        /\ Count(fixed_content, "FA") = Count(s1, "FA")

C6_Witness ==
    /\ pc = "sub2"
    /\ Subs1(content) = 1
    /\ Cardinality(Occurrences2(Sub1(content))) = 1
    /\ Count(fixed_content, "RP") = Count(Sub1(content), "RP") - 1
    /\ fixed_content # Sub2(content)

(* C7, as claimed: after the rewrite no part of the text matches the Step-1
   shape any more. *)
C7_NoMatchLeft ==
    pc \in {"sub1", "sub2"} => Occurrences1(fixed_content) = {}

(* C7, amended: when no two occurrences of the Step-1 shape overlap in the
   input, every occurrence is rewritten (one .bind( more for each) and the
   text after Step 1, and after Step 2, holds no occurrence of the shape. *)
C7_AllRewrittenUnlessOverlap ==
    pc \in {"sub1", "sub2"} /\ ~Overlap1(content) =>
        /\ Occurrences1(fixed_content) = {}
        /\ Count(fixed_content, "BIND")
              = Count(content, "BIND") + Cardinality(Occurrences1(content))

C7_Witness ==
    /\ pc = "sub2"
    /\ ~Overlap1(content)
    /\ Cardinality(Occurrences1(content)) = 2
    /\ Count(fixed_content, "BIND") = 2

(* C9: the count printed is the number of .bind( in the input plus the number
   of replacements Step 1 made: Step 1 adds one per replacement and removes
   none, Step 2 adds none and removes none. *)
C9_CountIsBindsPlusSubs ==
    /\ pc = "sub1" =>
          Count(fixed_content, "BIND") = Count(content, "BIND") + Subs1(content)
    /\ pc = "sub2" =>
          Count(fixed_content, "BIND") = Count(Sub1(content), "BIND")
    /\ pc = "returned" =>
          /\ fixed_count = Count(content, "BIND") + Subs1(content)
          /\ out[Len(out)] = Line("Fixed queries", "", fixed_count)

C9_Witness ==
    /\ pc = "returned"
    /\ Count(content, "BIND") = 1
    /\ Subs1(content) = 1
    /\ fixed_count = 2

(* ---------------------------------------------------------------------- *)
(* Properties of files written as call sites and text (SpecSites).        *)
(* ---------------------------------------------------------------------- *)
(* The first place at or after i where pat stands in s; 0 when there is none. *)
RECURSIVE FindFrom(_, _, _)
FindFrom(s, pat, i) ==
    IF i + Len(pat) - 1 > Len(s) THEN 0
    ELSE IF Slice(s, i, i + Len(pat) - 1) = pat THEN i
    ELSE FindFrom(s, pat, i + 1)

(* The texts of pats stand in s one after the other, from i on. *)
RECURSIVE InOrder(_, _, _)
InOrder(s, pats, i) ==
    IF pats = <<>> THEN TRUE
    ELSE LET k == FindFrom(s, Head(pats), i)
         IN  k > 0 /\ InOrder(s, Tail(pats), k + Len(Head(pats)))

SiteIndexes == {i \in DOMAIN layout : layout[i].site}

(* sqlx::query(r#"<body>"#, <one letter>) with no double quote in the body *)
IsPlainSite(g) ==
    /\ g.site
    /\ g.arg \in {<<"SP", "a">>, <<"SP", "b">>}
    /\ Count(g.body, "DQ") = 0

(* What the claim says a plain call site becomes. *)
Rewritten(g) ==
    <<"Q", "RH", "DQ">> \o g.body
        \o <<"DQ", "H", "RP", "NL", "IND", "BIND">> \o SelectSeq(g.arg, IsWord)
        \o <<"RP">>

(* C3, as claimed: a file with one or two call sites of the form
   sqlx::query(r#"..."#, param) and no .bind( comes out with each call site
   replaced, in order, by its invocation and string literal unchanged, ")",
   a newline, eight spaces and .bind(param), and the count printed is the
   number of call sites. *)
C3_CallSitesRewritten ==
    /\ pc = "returned"
    /\ Cardinality(SiteIndexes) \in {1, 2}
    /\ \A i \in SiteIndexes : IsPlainSite(layout[i])
    /\ Count(original, "BIND") = 0
    => /\ fixed_count = Cardinality(SiteIndexes)
       /\ InOrder(fixed_content,
                  [k \in 1..Len(SelectSeq(layout, IsPlainSite)) |->
                      Rewritten(SelectSeq(layout, IsPlainSite)[k])], 1)

(* A call site with other arguments, its string free of the Step-2 shape. *)
IsOtherSite(g) ==
    /\ g.site
    /\ g.arg \in OtherArgs
    /\ Occurrences2(g.body) = {}

(* C4, as claimed: a call site whose arguments after the string literal are
   two parameters, a field access, a reference or a call stands in the output
   exactly as it was (here: one whose string literal holds none of the Step-2
   shape), and a file with no other call site has as many .bind( as before. *)
C4_OtherCallSitesUntouched ==
    pc = "returned" =>
        /\ \A i \in SiteIndexes :
              IsOtherSite(layout[i]) => FindFrom(fixed_content, layout[i].text, 1) > 0
        /\ (\A i \in SiteIndexes : IsOtherSite(layout[i])) =>
              fixed_count = Count(original, "BIND")

====
